---- MODULE Spec2Model ----
(***************************************************************************)
(* A model of the in-memory todo store (src/lib/todo), of the              *)
(* DELETE /api/todos/[id] endpoint and of the POST /api/auth/signin        *)
(* endpoint.                                                               *)
(*                                                                         *)
(* JavaScript arrays are objects with identity: `heap` holds every array   *)
(* allocated so far and `todosData` is the module-level binding, an index  *)
(* into the heap.  push mutates the array in place, filter allocates a new *)
(* one, and resolve(todosData) hands the caller the reference itself.      *)
(* Every store operation only schedules a timer; the whole effect happens  *)
(* in the timer callback, which runs to completion (one event-loop task).  *)
(***************************************************************************)
EXTENDS Integers, Sequences, FiniteSets, TLC

VARIABLES
    heap,       \* every array allocated so far: heap[r] is the array with reference r
    todosData,  \* the module-level binding `let todosData`: a reference into heap
    order,      \* history: order[r][k] is the insertion stamp of the record heap[r][k]
    calls,      \* the store calls made so far, in the order they were started
    requests,   \* the DELETE /api/todos/[id] requests received so far
    signins     \* the POST /api/auth/signin requests received so far

vars == <<heap, todosData, order, calls, requests, signins>>

storeVars == <<heap, todosData, order, calls>>

(***************************************************************************)
(* Bounds of the model.                                                    *)
(***************************************************************************)
MaxCalls == 3       \* store calls started in one behaviour
MaxId == 3          \* deleteTodo is called directly with ids 1..MaxId
MaxRequests == 2    \* DELETE requests in one behaviour
MaxSignins == 2     \* sign-in requests in one behaviour

Texts == {"", "Buy milk"}

(***************************************************************************)
(* The store: src/lib/todo.js (and its typed twin).                        *)
(***************************************************************************)
Seeds ==
    << [id |-> 1, text |-> "Learn Kung Fu", completed |-> FALSE],
       [id |-> 2, text |-> "Watch Westminster", completed |-> TRUE],
       [id |-> 3, text |-> "Study Vedanta", completed |-> FALSE] >>

NoTodo == [id |-> 0, text |-> "", completed |-> FALSE]

\* Only the first record whose id is id is dropped.
KeptFirstOnly(data, id) ==
    {k \in 1..Len(data) : data[k].id # id \/ \E j \in 1..(k-1) : data[j].id = id}

\* Positions of the records of data that todosData.filter(todo => todo.id !== id) keeps.
Kept(data, id) == {k \in 1..Len(data) : data[k].id # id}

\* The k-th smallest element of a finite set of naturals.
RECURSIVE Nth(_, _)
Nth(S, k) ==
    LET m == CHOOSE x \in S : \A y \in S : x <= y
    IN  IF k = 1 THEN m ELSE Nth(S \ {m}, k - 1)

\* seq restricted to the positions in keep, relative order kept.
Pick(seq, keep) == [k \in 1..Cardinality(keep) |-> seq[Nth(keep, k)]]

\* The id without the + 1.
NewTodoNoPlusOne(data, text) == [id |-> Len(data), text |-> text, completed |-> FALSE]

\* The id from the length the collection had when the module was loaded.
NewTodoStaleLength(data, text) ==
    [id |-> Len(Seeds) + 1, text |-> text, completed |-> FALSE]

\* completed: true.
NewTodoCompleted(data, text) == [id |-> Len(data) + 1, text |-> text, completed |-> TRUE]

\* const newTodo = { id: todosData.length + 1, text, completed: false }
NewTodo(data, text) == [id |-> Len(data) + 1, text |-> text, completed |-> FALSE]

Pending == {i \in 1..Len(calls) : calls[i].state = "pending"}

Resolved == {i \in 1..Len(calls) : calls[i].state = "resolved"}

\* new Promise(executor): the executor only schedules the timer.
NewCall(op, text, id, owner) ==
    [op |-> op, text |-> text, id |-> id, owner |-> owner, state |-> "pending",
     ref |-> 0, todo |-> NoTodo, ok |-> FALSE,
     inflight |-> Pending, firedAt |-> 0]

Schedule(op, text, id, owner) ==
    /\ Len(calls) < MaxCalls
    /\ calls' = Append(calls, NewCall(op, text, id, owner))
    /\ UNCHANGED <<heap, todosData, order>>

getTodos == Schedule("getTodos", "", 0, 0) /\ UNCHANGED <<requests, signins>>

addTodo(text) == Schedule("addTodo", text, 0, 0) /\ UNCHANGED <<requests, signins>>

deleteTodo(id) == Schedule("deleteTodo", "", id, 0) /\ UNCHANGED <<requests, signins>>

\* reject instead of resolve.
SettleRejected(i, ref, todo, ok) ==
    calls' = [calls EXCEPT ![i] = [@ EXCEPT !.state = "rejected",
                                            !.firedAt = Cardinality(Resolved) + 1]]

\* resolve(value) of call i; firedAt stamps the order in which the timers fired.
Settle(i, ref, todo, ok) ==
    calls' = [calls EXCEPT ![i] = [@ EXCEPT !.state = "resolved", !.ref = ref,
                                            !.todo = todo, !.ok = ok,
                                            !.firedAt = Cardinality(Resolved) + 1]]

\* The array todosData was bound to before the last filter replaced it.
GetTodosResultStale == IF todosData > 1 THEN todosData - 1 ELSE todosData

\* resolve(todosData): the reference bound to todosData when the timer fires.
GetTodosResult == todosData

getTodosTimer(i) ==
    /\ i \in Pending
    /\ calls[i].op = "getTodos"
    /\ Settle(i, GetTodosResult, NoTodo, FALSE)
    /\ UNCHANGED <<heap, todosData, order, requests, signins>>

NextStamp == 1 + Len(Seeds) + Cardinality({i \in Resolved : calls[i].op = "addTodo"})

addTodoTimer(i) ==
    /\ i \in Pending
    /\ calls[i].op = "addTodo"
    /\ LET newTodo == NewTodo(heap[todosData], calls[i].text)
       IN  /\ heap' = [heap EXCEPT ![todosData] = Append(@, newTodo)]
           /\ order' = [order EXCEPT ![todosData] = Append(@, NextStamp)]
           /\ Settle(i, 0, newTodo, FALSE)
    /\ UNCHANGED <<todosData, requests, signins>>

deleteTodoTimer(i) ==
    /\ i \in Pending
    /\ calls[i].op = "deleteTodo"
    /\ LET keep == Kept(heap[todosData], calls[i].id)
       IN  /\ heap' = Append(heap, Pick(heap[todosData], keep))
           /\ order' = Append(order, Pick(order[todosData], keep))
    /\ todosData' = Len(heap) + 1
    /\ Settle(i, 0, NoTodo, TRUE)
    /\ UNCHANGED <<requests, signins>>

Init ==
    /\ heap = <<Seeds>>
    /\ todosData = 1
    /\ order = << <<1, 2, 3>> >>
    /\ calls = <<>>
    /\ requests = <<>>
    /\ signins = <<>>

Next ==
    \/ getTodos
    \/ \E text \in Texts : addTodo(text)
    \/ \E id \in 1..MaxId : deleteTodo(id)
    \/ \E i \in 1..MaxCalls : getTodosTimer(i)
    \/ \E i \in 1..MaxCalls : addTodoTimer(i)
    \/ \E i \in 1..MaxCalls : deleteTodoTimer(i)

Spec == Init /\ [][Next]_vars

\* The timer of call i fires.
TimerFires(i) == getTodosTimer(i) \/ addTodoTimer(i) \/ deleteTodoTimer(i)

\* The store's operations with deleteTodo's argument fixed: which record a delete
\* removes has no part in whether a call settles.
NextLive ==
    \/ getTodos
    \/ \E text \in Texts : addTodo(text)
    \/ deleteTodo(Seeds[2].id)
    \/ \E i \in 1..MaxCalls : TimerFires(i)

\* Every timer that was set eventually fires.
FairSpec == Init /\ [][NextLive]_vars /\ \A i \in 1..MaxCalls : WF_vars(TimerFires(i))

\* The current contents of the store.
Store == heap[todosData]

(***************************************************************************)
(* DELETE /api/todos/[id]: src/pages/api/todos/[id].ts and [id].js.        *)
(* Strings are sequences of one-character strings.                         *)
(***************************************************************************)
\* params.id: a string, or undefined when the route carries no id.
ParamStrings ==
    { <<>>, <<"2">>, <<"4">>, <<"a", "b", "c">>, <<"2", "a">>, <<"a", "2">>,
      <<"-", "2">>, <<" ", "2">>, <<"-">>, <<"2", ".", "5">> }

Params ==
    {[present |-> TRUE, chars |-> s] : s \in ParamStrings}
        \cup {[present |-> FALSE, chars |-> <<>>]}

DigitChars == <<"0", "1", "2", "3", "4", "5", "6", "7", "8", "9">>

IsDigit(c) == \E k \in 1..Len(DigitChars) : DigitChars[k] = c

DigitVal(c) == (CHOOSE k \in 1..Len(DigitChars) : DigitChars[k] = c) - 1

RECURSIVE TrimStart(_)
TrimStart(s) == IF s # <<>> /\ Head(s) = " " THEN TrimStart(Tail(s)) ELSE s

\* The value of the longest prefix of decimal digits of s, given the digits read so far.
RECURSIVE ReadDigits(_, _, _)
ReadDigits(s, acc, seen) ==
    IF s # <<>> /\ IsDigit(Head(s))
    THEN ReadDigits(Tail(s), 10 * acc + DigitVal(Head(s)), TRUE)
    ELSE [nan |-> ~seen, val |-> acc]

NaN == [nan |-> TRUE, val |-> 0]

\* parseInt(s, 10): leading white space is skipped, a sign is read, then the longest
\* prefix of decimal digits; NaN when there is no digit.
parseInt(s) ==
    LET t == TrimStart(s)
        signed == t # <<>> /\ Head(t) \in {"-", "+"}
        sign == IF t # <<>> /\ Head(t) = "-" THEN -1 ELSE 1
        r == ReadDigits(IF signed THEN Tail(t) ELSE t, 0, FALSE)
    IN  IF r.nan THEN NaN ELSE [nan |-> FALSE, val |-> sign * r.val]

isNaN(n) == n.nan

\* ToString(undefined)
UndefinedString == <<"u", "n", "d", "e", "f", "i", "n", "e", "d">>

\* The argument of parseInt: params.id || '' in [id].ts, params.id in [id].js.
IdArgument(variant, param) ==
    IF variant = "ts"
    THEN (IF param.present /\ param.chars # <<>> THEN param.chars ELSE <<>>)
    ELSE (IF param.present THEN param.chars ELSE UndefinedString)

NoResponse == [status |-> 0, statusText |-> "", body |-> ""]

\* The handler up to its first suspension: the 400 response, or the call of deleteTodo.
DELETE(variant, param) ==
    /\ Len(requests) < MaxRequests
    /\ LET id == parseInt(IdArgument(variant, param))
           r == [variant |-> variant, param |-> param, pc |-> "done", call |-> 0,
                 response |-> NoResponse]
       IN  IF isNaN(id)
           THEN /\ requests' = Append(requests,
                        [r EXCEPT !.response =
                            [status |-> 400, statusText |-> "Invalid ID", body |-> ""]])
                /\ UNCHANGED storeVars
           ELSE /\ Schedule("deleteTodo", "", id.val, Len(requests) + 1)
                /\ requests' = Append(requests,
                        [r EXCEPT !.pc = "await", !.call = Len(calls) + 1])
    /\ UNCHANGED signins

\* The handler without the await: it answers before the delete has taken effect.
DELETENoAwait(q) ==
    /\ q \in 1..Len(requests)
    /\ requests[q].pc = "await"
    /\ requests' = [requests EXCEPT ![q] =
            [@ EXCEPT !.pc = "done",
                      !.response = [status |-> 200, statusText |-> "", body |-> ""]]]
    /\ UNCHANGED <<storeVars, signins>>

\* The handler after `await deleteTodo(id)`: it resumes once the promise is resolved.
DELETEResume(q) ==
    /\ q \in 1..Len(requests)
    /\ requests[q].pc = "await"
    /\ calls[requests[q].call].state = "resolved"
    /\ requests' = [requests EXCEPT ![q] =
            [@ EXCEPT !.pc = "done",
                      !.response = [status |-> 200, statusText |-> "", body |-> ""]]]
    /\ UNCHANGED <<storeVars, signins>>

NextHttp ==
    \/ \E variant \in {"ts", "js"}, param \in Params : DELETE(variant, param)
    \/ \E q \in 1..MaxRequests : DELETEResume(q)
    \/ \E i \in 1..MaxCalls : deleteTodoTimer(i)

SpecHttp == Init /\ [][NextHttp]_vars

(***************************************************************************)
(* POST /api/auth/signin: src/pages/api/auth/signin.ts.  The file holds    *)
(* two handlers: the first ("redirect") reports failures with an           *)
(* HX-Redirect to /api/error, the second ("alert") with a rendered Alert   *)
(* fragment.  The provider (supabase.auth.signInWithPassword) is external: *)
(* its answer is an input.                                                 *)
(***************************************************************************)
\* formData.get(name)?.toString(): undefined when the field is missing.
Emails == {[present |-> FALSE, value |-> ""], [present |-> TRUE, value |-> ""],
           [present |-> TRUE, value |-> "user@example.com"]}

Passwords == {[present |-> FALSE, value |-> ""], [present |-> TRUE, value |-> ""],
              [present |-> TRUE, value |-> "secret"]}

\* !value
Falsy(v) == ~v.present \/ v.value = ""

NoError == [isNull |-> TRUE, message |-> ""]

NoSession == [isNull |-> TRUE, access_token |-> "", refresh_token |-> ""]

Errors == {NoError, [isNull |-> FALSE, message |-> "Invalid login credentials"]}

Sessions == {NoSession, [isNull |-> FALSE, access_token |-> "at", refresh_token |-> "rt"]}

NoBody == [alert |-> FALSE, type |-> "", message |-> ""]

NoSigninResponse ==
    [status |-> 0, hxRedirect |-> "", hxMessage |-> "", contentType |-> "", body |-> NoBody]

\* new Response(null, {status, headers: {'HX-Redirect': '/api/error?message=' + encoded}});
\* hxMessage is the message the query string carries.
ErrorRedirect(status, message) ==
    [status |-> status, hxRedirect |-> "/api/error", hxMessage |-> message,
     contentType |-> "", body |-> NoBody]

\* new Response(errorHtml, {status: 200, headers: {'Content-Type': 'text/html'}})
AlertFragment(message) ==
    [status |-> 200, hxRedirect |-> "", hxMessage |-> "", contentType |-> "text/html",
     body |-> [alert |-> TRUE, type |-> "error", message |-> message]]

DashboardRedirect ==
    [status |-> 200, hxRedirect |-> "/dashboard", hxMessage |-> "",
     contentType |-> "", body |-> NoBody]

\* cookies.set(name, value, { path: '/' }) for both tokens.
SessionCookies(session) ==
    {[name |-> "sb-access-token", value |-> session.access_token, path |-> "/"],
     [name |-> "sb-refresh-token", value |-> session.refresh_token, path |-> "/"]}

\* The handler up to its first suspension: the missing-field response, or the call of
\* the provider.
POST(variant, email, password) ==
    /\ Len(signins) < MaxSignins
    /\ LET r == [variant |-> variant, email |-> email, password |-> password,
                 pc |-> "done", providerCalls |-> 0, error |-> NoError,
                 session |-> NoSession, cookies |-> {}, response |-> NoSigninResponse]
       IN  signins' = Append(signins,
                IF Falsy(email) \/ Falsy(password)
                THEN [r EXCEPT !.response =
                        IF variant = "redirect"
                        THEN ErrorRedirect(400, "Email and password are required")
                        ELSE AlertFragment("Email and password are required")]
                ELSE [r EXCEPT !.pc = "provider", !.providerCalls = 1])
    /\ UNCHANGED <<storeVars, requests>>

\* The first handler after the provider's answer: `if (error)`, then the destructuring
\* of data.session, which throws a TypeError when the session is null.
AfterProviderRedirect(r, error, session) ==
    IF ~error.isNull
    THEN [r EXCEPT !.pc = "done", !.error = error, !.session = session,
                   !.response = ErrorRedirect(401, error.message)]
    ELSE IF session.isNull
    THEN [r EXCEPT !.pc = "threw", !.error = error, !.session = session]
    ELSE [r EXCEPT !.pc = "done", !.error = error, !.session = session,
                   !.cookies = SessionCookies(session), !.response = DashboardRedirect]

\* The second handler after the provider's answer: `if (error || !data?.session)`.
AfterProviderAlert(r, error, session) ==
    IF ~error.isNull \/ session.isNull
    THEN [r EXCEPT !.pc = "done", !.error = error, !.session = session,
                   !.response = AlertFragment(IF error.isNull THEN "Login failed"
                                              ELSE error.message)]
    ELSE [r EXCEPT !.pc = "done", !.error = error, !.session = session,
                   !.cookies = SessionCookies(session), !.response = DashboardRedirect]

\* The provider answers and the handler runs to its end.
POSTResume(q, error, session) ==
    /\ q \in 1..Len(signins)
    /\ signins[q].pc = "provider"
    /\ signins' = [signins EXCEPT ![q] =
            IF @.variant = "redirect" THEN AfterProviderRedirect(@, error, session)
            ELSE AfterProviderAlert(@, error, session)]
    /\ UNCHANGED <<storeVars, requests>>

NextAuth ==
    \/ \E variant \in {"redirect", "alert"}, email \in Emails, password \in Passwords :
            POST(variant, email, password)
    \/ \E q \in 1..MaxSignins, error \in Errors, session \in Sessions :
            POSTResume(q, error, session)

SpecAuth == Init /\ [][NextAuth]_vars

(***************************************************************************)
(* The claims.                                                             *)
(***************************************************************************)
Adds == {i \in 1..Len(calls) : calls[i].op = "addTodo"}

Deletes == {i \in 1..Len(calls) : calls[i].op = "deleteTodo"}

Gets == {i \in 1..Len(calls) : calls[i].op = "getTodos"}

\* The timer of call i fires in this step.
Fires(i) == i \in Pending /\ calls'[i].state # "pending"

\* C1: no two records in the store have the same id.
C1_UniqueIds ==
    \A j, k \in 1..Len(Store) : j # k => Store[j].id # Store[k].id

\* C10: each record's id is at least its 1-based position in the store, hence positive,
\* and the id addTodo assigns is never smaller than the number of records present after
\* the insertion.
C10_IdAtLeastPosition ==
    /\ [](\A k \in 1..Len(Store) : Store[k].id \in Int /\ Store[k].id >= k /\ Store[k].id > 0)
    /\ [][\A i \in Adds : Fires(i) => calls'[i].todo.id >= Len(heap'[todosData'])]_vars

C10_Witness ==
    \E i \in Adds \cap Resolved, d \in Deletes \cap Resolved :
        /\ calls[d].firedAt < calls[i].firedAt
        /\ \E k \in 1..Len(Store) : Store[k] = calls[i].todo /\ Store[k].id > k

\* C2: when its timer fires, addTodo(text) appends exactly one record
\* {id: length + 1, text, completed: false} as the last element, leaves every record
\* already present where it was, and resolves to that record.
C2_AddAppends ==
    [][\A i \in Adds : Fires(i) =>
        LET old == heap[todosData]
            new == heap'[todosData']
            rec == [id |-> Len(old) + 1, text |-> calls[i].text, completed |-> FALSE]
        IN  /\ Len(new) = Len(old) + 1
            /\ \A k \in 1..Len(old) : new[k] = old[k]
            /\ new[Len(new)] = rec
            /\ calls'[i].state = "resolved"
            /\ calls'[i].todo = rec]_vars

C2_Witness ==
    \E i \in Adds \cap Resolved, d \in Deletes \cap Resolved :
        /\ calls[d].firedAt < calls[i].firedAt
        /\ calls[i].text = ""
        /\ Len(Store) = Len(Seeds)
        /\ Store[Len(Store)] = calls[i].todo

\* data without the records whose id is id, written as a recursion over the list.
RECURSIVE RemoveAll(_, _)
RemoveAll(data, id) ==
    IF data = <<>> THEN <<>>
    ELSE IF Head(data).id = id THEN RemoveAll(Tail(data), id)
    ELSE <<Head(data)>> \o RemoveAll(Tail(data), id)

\* C3: when its timer fires, deleteTodo(id) leaves the store equal to the previous
\* sequence without the records whose id is id, the others in their order, and
\* resolves to true whether or not a record was removed; the store then holds no
\* record with that id.
C3_DeleteRemovesAll ==
    [][\A i \in Deletes : Fires(i) =>
        LET old == heap[todosData]
            new == heap'[todosData']
        IN  /\ new = RemoveAll(old, calls[i].id)
            /\ \A k \in 1..Len(new) : new[k].id # calls[i].id
            /\ calls'[i].state = "resolved"
            /\ calls'[i].ok = TRUE]_vars

C3_Witness ==
    \E i, j \in Deletes \cap Resolved :
        /\ calls[i].firedAt < calls[j].firedAt
        /\ calls[i].id = calls[j].id
        /\ calls[i].ok /\ calls[j].ok
        /\ Len(Store) = Len(Seeds) - 1

IsIncreasing(stamps) == \A j, k \in 1..Len(stamps) : j < k => stamps[j] < stamps[k]

\* C4: getTodos leaves the store unchanged and resolves to the store's contents as they
\* are when its timer fires, in insertion order; with no add or delete before it, it
\* resolves to the three seed records in their order.
C4_GetReturnsStore ==
    /\ [](\A r \in 1..Len(heap) : IsIncreasing(order[r]))
    /\ [][\A i \in Gets : Fires(i) =>
            /\ heap' = heap /\ todosData' = todosData
            /\ calls'[i].state = "resolved"
            /\ calls'[i].ref \in 1..Len(heap)
            /\ heap'[calls'[i].ref] = heap[todosData]
            /\ ((Resolved \subseteq Gets) => heap'[calls'[i].ref] = Seeds)]_vars

C4_Witness ==
    \E i \in Gets \cap Resolved :
        /\ calls[i].firedAt = 3
        /\ order[calls[i].ref] = <<2, 3, 4>>
        /\ heap[calls[i].ref] = Store

\* What parseInt(s, 10) is expected to give for each id parameter: the value, or
\* "NaN" when the parameter does not parse as an integer.
ExpectedId(param) ==
    IF ~param.present THEN NaN
    ELSE CASE param.chars = <<>>               -> NaN
           [] param.chars = <<"2">>            -> [nan |-> FALSE, val |-> 2]
           [] param.chars = <<"4">>            -> [nan |-> FALSE, val |-> 4]
           [] param.chars = <<"a", "b", "c">>  -> NaN
           [] param.chars = <<"2", "a">>       -> [nan |-> FALSE, val |-> 2]
           [] param.chars = <<"a", "2">>       -> NaN
           [] param.chars = <<"-", "2">>       -> [nan |-> FALSE, val |-> -2]
           [] param.chars = <<" ", "2">>       -> [nan |-> FALSE, val |-> 2]
           [] param.chars = <<"-">>            -> NaN
           [] param.chars = <<"2", ".", "5">>  -> [nan |-> FALSE, val |-> 2]

OwnedBy(q) == {i \in 1..Len(calls) : calls[i].owner = q}

\* C5: the DELETE handler answers 400 without calling deleteTodo and without changing
\* the store when the id parameter does not parse as an integer or is missing;
\* otherwise it calls deleteTodo once with the parsed integer and answers 200 with an
\* empty body only after that delete has taken effect, whether or not a record had
\* that id.
C5_DeleteHandler ==
    /\ [](\A q \in 1..Len(requests) :
            LET r == requests[q]
                expected == ExpectedId(r.param)
            IN  IF expected.nan
                THEN /\ r.pc = "done"
                     /\ r.response.status = 400
                     /\ OwnedBy(q) = {}
                ELSE /\ Cardinality(OwnedBy(q)) = 1
                     /\ \A i \in OwnedBy(q) :
                            /\ calls[i].op = "deleteTodo"
                            /\ calls[i].id = expected.val
                            /\ r.pc = "done" => calls[i].state = "resolved"
                     /\ r.pc = "done" => r.response.status = 200 /\ r.response.body = ""
                     /\ r.pc # "done" => r.response = NoResponse)
    /\ [][(Len(requests') > Len(requests)
            /\ requests'[Len(requests')].response.status = 400)
                => UNCHANGED storeVars]_vars

C5_Witness ==
    \E p, q \in 1..Len(requests) :
        /\ requests[p].response.status = 400
        /\ requests[p].param.chars = <<"a", "b", "c">>
        /\ requests[q].response.status = 200
        /\ requests[q].param.chars = <<"4">>
        /\ Len(Store) = Len(Seeds)

\* Call j was started while call i was in flight.
Overlap(i, j) == i \in calls[j].inflight

\* C6 (as amended): two addTodo calls never compute the same id unless a deleteTodo
\* takes effect between their two timer callbacks; the later callback gets the larger
\* id, also when both calls are in flight together.
C6_AddsWithoutDeleteDiffer ==
    \A i, j \in Adds \cap Resolved :
        (/\ calls[i].firedAt < calls[j].firedAt
         /\ ~\E d \in Deletes \cap Resolved :
                calls[i].firedAt < calls[d].firedAt /\ calls[d].firedAt < calls[j].firedAt)
            => calls[i].todo.id < calls[j].todo.id

C6_Witness ==
    \E i, j \in Adds \cap Resolved :
        /\ Overlap(i, j)
        /\ calls[j].firedAt < calls[i].firedAt
        /\ Deletes = {}
        /\ calls[i].todo.id # calls[j].todo.id

\* C6 (as claimed): two addTodo calls in flight together, with no deleteTodo involved,
\* compute the same id.
C6_ConcurrentAddsCollide ==
    \A i, j \in Adds \cap Resolved :
        (Overlap(i, j) /\ Deletes = {}) => calls[i].todo.id = calls[j].todo.id

\* C7: a value getTodos resolved to is never the array the store currently holds, and
\* no later step changes a list a caller has received.
C7_NoSharedReference ==
    /\ [](\A i \in Gets \cap Resolved : calls[i].ref # todosData)
    /\ [][\A i \in Gets \cap Resolved : heap'[calls[i].ref] = heap[calls[i].ref]]_vars

\* C8: every call that was started eventually resolves, and none ever rejects.
C8_EveryCallResolves ==
    /\ \A i \in 1..MaxCalls : [](i <= Len(calls) => <>(i <= Len(calls) /\ calls[i].state = "resolved"))
    /\ [](\A i \in 1..Len(calls) : calls[i].state \in {"pending", "resolved"})

C8_Witness ==
    /\ Len(calls) = MaxCalls
    /\ Resolved = 1..MaxCalls
    /\ \A i \in 2..MaxCalls : calls[i].inflight = 1..(i - 1)
    /\ Gets # {} /\ Adds # {} /\ Deletes # {}

\* The sign-in succeeded: both fields non-empty and the provider returned a session
\* without error.
SignedIn(r) ==
    /\ ~Falsy(r.email) /\ ~Falsy(r.password)
    /\ r.pc # "provider"
    /\ r.providerCalls = 1
    /\ r.error.isNull /\ ~r.session.isNull

\* C9: the session cookies are set and the response redirects to /dashboard only when
\* both fields are non-empty and the provider returned a session without error; with a
\* field missing the provider is not called; on every failure path no cookie is set
\* and the response carries an error redirect or an error fragment, never a redirect
\* to /dashboard.
C9_SigninOutcome ==
    \A q \in 1..Len(signins) :
        LET r == signins[q]
        IN  /\ (r.cookies # {} \/ r.response.hxRedirect = "/dashboard") => SignedIn(r)
            /\ SignedIn(r) =>
                    /\ {c.name : c \in r.cookies} = {"sb-access-token", "sb-refresh-token"}
                    /\ r.response.hxRedirect = "/dashboard"
            /\ (Falsy(r.email) \/ Falsy(r.password)) => r.providerCalls = 0
            /\ (r.pc # "provider" /\ ~SignedIn(r)) =>
                    /\ r.cookies = {}
                    /\ r.response.hxRedirect # "/dashboard"
                    /\ r.response.hxRedirect = "/api/error" \/ r.response.body.alert

====
